---- MODULE Spec2Model ----
(***************************************************************************)
(* Valuation / implied-volatility calibration state machine of             *)
(* tsfin.instruments.baseequityoption.BaseEquityOption.                    *)
(*                                                                         *)
(* One instrument and the pricing process it references.  Every public     *)
(* valuation method is one atomic action (the code is single-threaded and  *)
(* synchronous).  Volatilities are integers in hundredths (0.2 is 20).     *)
(* A Python optional argument is a sequence: << >> is None, <<v>> is v.    *)
(*                                                                         *)
(* Spec          one option, every public valuation method                 *)
(* PayoffSpec    CALL and PUT options over a range of strikes              *)
(* SharedSpec    two options on one pricing process, price() step by step  *)
(* CurrencySpec  Currency.value and Cash.value of                          *)
(*               tsfin.instruments.currencyspot                            *)
(* OisSpec       OISRate.rate_helper of                                    *)
(*               tsfin.instruments.interest_rates.ois                      *)
(***************************************************************************)
EXTENDS Integers, Sequences, FiniteSets, TLC

\* ------------------------------------------------------------------------
\* Bounds and input universes
\* ------------------------------------------------------------------------
MaxDate == 3

Dates == 1..MaxDate

\* maturities tried at construction: one inside the date range, one after it
Maturities == {MaxDate - 1, MaxDate + 1}

None == << >>

Some(v) == <<v>>

\* values the implied-volatility solver may return (hundredths)
ImpliedVols == {31}

\* volatility overrides a caller may pass (hundredths)
VolOverrides == {21}

Volatilities == {None} \cup {Some(v) : v \in VolOverrides}

\* exercise_ovrd strings a caller may pass
ExerciseOvrds == {None, Some("american"), Some("bermudan")}

\* exercise styles found in the time-series attributes at construction
ExerciseAttrs == {"European", "American"}

\* underlying_price overrides
UnderlyingPrices == {None}

\* spot_price arguments of price_underlying, delta_underlying and implied_vol
SpotPrices == {105}

\* target prices handed to implied_vol
Targets == {7}

OptionTypes == {"CALL"}

\* ------------------------------------------------------------------------
\* External collaborators: quote series, calendar, str.upper, the solver
\* ------------------------------------------------------------------------
\* underlying_instrument.spot_price(date, last_available=True)
spot_price(date) == IF date <= 1 THEN 110 ELSE 120

\* self.ts_mid_price(date, last_available=True)
ts_mid_price(date) == 5 + date

\* self.calendar.advance(date, n, ql.Days); every modelled date is a business day
calendar_advance(date, n) == date + n

\* str.upper on the strings of the model
upper(s) ==
    CASE s \in {"american", "American", "AMERICAN"} -> "AMERICAN"
      [] s \in {"european", "European", "EUROPEAN"} -> "EUROPEAN"
      [] s \in {"bermudan", "Bermudan", "BERMUDAN"} -> "BERMUDAN"
      [] OTHER -> s

\* option.impliedVolatility raised RuntimeError
SolverFailure == [ok |-> FALSE, vol |-> 0]

\* outcomes of option.impliedVolatility: a volatility or a RuntimeError
SolverOutcomes == {[ok |-> TRUE, vol |-> v] : v \in ImpliedVols} \cup {SolverFailure}

\* accuracy=1.0e-4 of the two solver calls of option_engine
accuracy == "1.0e-4"

\* maxEvaluations=100 of the two solver calls of option_engine
maxEvaluations == 100

\* vol_value=0.2 handed to update_process and default volatility of implied_vol,
\* in hundredths
vol_value == 20

VARIABLES
    ts_attributes,        \* the time-series attributes the instrument was built from
    opt_type,             \* self.opt_type
    strike,               \* self.strike
    contract_size,        \* self.contract_size
    option_maturity,      \* self.option_maturity
    exercise_type,        \* self.exercise_type
    option,               \* self.option: the last contract built, or NoOption
    implied_volatility,   \* self.implied_volatility: dict date -> volatility quote
    ql_process,           \* the shared pricing process: [vol, spot]
    last,                 \* the last call: its arguments, solver invocations and result
    caches,               \* two instruments on one process: each one's implied_volatility
    calls,                \* two instruments on one process: each one's call in progress
    latest,               \* the instrument whose valuation call started last
    seen,                 \* what the last read of the shared process observed
    serialised,           \* whether the callers serialise their access to the process
    fx,                   \* a Currency or Cash instrument: class, currency, base_currency
    fx_last,              \* the last value() call on fx: its arguments, reads and result
    ois_helper,           \* OISRate._rate_helper: None or the helper object
    final_rate,           \* OISRate.final_rate: the value of the rate quote
    final_spread,         \* OISRate.final_spread: the value of the spread quote
    helpers_built,        \* how many helper objects set_rate_helper has constructed
    ois_last              \* the last rate_helper() call: its arguments and what it returned

\* the instruments that share one pricing process
shared_vars == <<caches, calls, latest, seen, serialised>>

\* the currency instrument
currency_vars == <<fx, fx_last>>

\* the OIS rate instrument
ois_vars == <<ois_helper, final_rate, final_spread, helpers_built, ois_last>>

\* what the valuation calls of a single option leave alone
elsewhere == <<shared_vars, currency_vars, ois_vars>>

vars == <<ts_attributes, opt_type, strike, contract_size, option_maturity, exercise_type,
          option, implied_volatility, ql_process, last, shared_vars, currency_vars, ois_vars>>

static == <<ts_attributes, opt_type, strike, contract_size, option_maturity>>

\* self.option = None; a built contract is represented by its exercise style
NoOption == "None"

Result(kind, val) == [kind |-> kind, val |-> val]

\* ------------------------------------------------------------------------
\* Contract building
\* ------------------------------------------------------------------------
\* variant of option_exercise_type that takes any other style as European
option_exercise_type_lenient(et, date, maturity) ==
    IF upper(et) = "AMERICAN"
    THEN IF date > maturity THEN "RuntimeError" ELSE "AmericanExercise"
    ELSE "EuropeanExercise"

\* option_exercise_type: the exercise object, or the error raised
\* (ql.AmericanExercise rejects an earliest date after the latest one)
option_exercise_type(et, date, maturity) ==
    IF upper(et) = "AMERICAN"
    THEN IF date > maturity THEN "RuntimeError" ELSE "AmericanExercise"
    ELSE IF upper(et) = "EUROPEAN" THEN "EuropeanExercise"
    ELSE "ValueError"

\* variant of ql_option that keeps the stored style when the override is rejected
ql_option_validated(date, exercise_ovrd) ==
    LET et == IF exercise_ovrd # None THEN upper(exercise_ovrd[1]) ELSE exercise_type
        built == option_exercise_type(et, date, option_maturity)
    IN  [exercise_type |-> IF built = "ValueError" THEN exercise_type ELSE et,
         option |-> built]

\* ql_option: stores the upper-cased override, then builds the exercise
ql_option(date, exercise_ovrd) ==
    LET et == IF exercise_ovrd # None THEN upper(exercise_ovrd[1]) ELSE exercise_type
    IN  [exercise_type |-> et,
         option |-> option_exercise_type(et, date, option_maturity)]

\* ------------------------------------------------------------------------
\* Pricing process
\* ------------------------------------------------------------------------
\* ql_process.update_process: spot for the date (or the override), placeholder volatility
update_process(date, underlying_price) ==
    [vol |-> vol_value,
     spot |-> IF underlying_price # None THEN underlying_price[1] ELSE spot_price(date)]

\* ql_process.volatility_update: link the process to the volatility quote
volatility_update(process, quote) == [process EXCEPT !.vol = quote]

\* ql_process.spot_price_update
spot_price_update(process, spot) == [process EXCEPT !.spot = spot]

\* ------------------------------------------------------------------------
\* option_engine
\* ------------------------------------------------------------------------
\* variant of EffectiveDate that forgets the clamp to base_date
EffectiveDate_unclamped(date, base_date) == date

\* the date the volatility is resolved and cached under: date clamped to base_date
EffectiveDate(date, base_date) == IF date > base_date THEN base_date ELSE date

\* dict store: d[key] = value
DictSet(d, key, value) ==
    [k \in DOMAIN d \cup {key} |-> IF k = key THEN value ELSE d[k]]

\* dict lookup as an optional: None when the key is absent
DictGet(d, key) == IF key \in DOMAIN d THEN Some(d[key]) ELSE None

\* variant of CacheAfterOverride that keeps an entry the cache already holds
CacheAfterOverride_setdefault(cache, key, volatility) ==
    IF volatility # None /\ key \notin DOMAIN cache
    THEN [k \in DOMAIN cache \cup {key} |-> IF k = key THEN volatility[1] ELSE cache[k]]
    ELSE cache

\* the cache after the override store
CacheAfterOverride(cache, key, volatility) ==
    IF volatility # None THEN DictSet(cache, key, volatility[1]) ELSE cache

\* variant of KeyError that never finds the key: every call solves again
KeyError_always(cache, key) == TRUE

\* self.implied_volatility[date] raises KeyError
KeyError(cache, key) == key \notin DOMAIN cache

\* variant of PriorDate that retries on the same date
PriorDate_same(key) == key

\* the date whose mid-price the retry targets
PriorDate(key) == calendar_advance(key, -1)

\* one invocation of option.impliedVolatility by option_engine
SolverCall(date, outcome) ==
    [targetValue |-> ts_mid_price(date), accuracy |-> accuracy,
     maxEvaluations |-> maxEvaluations, outcome |-> outcome]

\* variant of Solves that gives up after the first solve
Solves_noretry(key, att) == <<SolverCall(key, att[1])>>

\* the solver invocations of the except-KeyError block: the first solve, then
\* the retry when the first raised
Solves(key, att) ==
    IF att[1].ok THEN <<SolverCall(key, att[1])>>
    ELSE <<SolverCall(key, att[1]), SolverCall(PriorDate(key), att[2])>>

\* variant of CacheAfterSolve that caches the placeholder when the retry raised
CacheAfterSolve_placeholder(cache, key, solves) ==
    [k \in DOMAIN cache \cup {key} |->
        IF k # key THEN cache[k]
        ELSE IF solves[Len(solves)].outcome.ok THEN solves[Len(solves)].outcome.vol
        ELSE vol_value]

\* the cache after the except-KeyError block: the solved volatility under the
\* key, nothing when the retry raised too
CacheAfterSolve(cache, key, solves) ==
    IF solves[Len(solves)].outcome.ok
    THEN DictSet(cache, key, solves[Len(solves)].outcome.vol)
    ELSE cache

\* the solver outcomes a call may meet: none when the contract is not built or
\* the key is resolved without solving
Attempts(date, base_date, exercise_ovrd, volatility) ==
    LET built == ql_option(date, exercise_ovrd).option
        key == EffectiveDate(date, base_date)
    IN  IF built \in {"ValueError", "RuntimeError"}
           \/ ~KeyError(CacheAfterOverride(implied_volatility, key, volatility), key)
        THEN {<<SolverFailure, SolverFailure>>}
        ELSE {<<s, SolverFailure>> : s \in SolverOutcomes \ {SolverFailure}}
             \cup {<<SolverFailure, s>> : s \in SolverOutcomes}

\* the except-KeyError block ended with the retry raising too
SolveRaised(solves) == solves # << >> /\ ~solves[Len(solves)].outcome.ok

\* variant of ProcessAtSolve in which the solver gets the process as the
\* previous call left it
ProcessAtSolve_stale(date, underlying_price) == ql_process

\* the process handed to option.impliedVolatility: self.ql_process after
\* update_process
ProcessAtSolve(date, underlying_price) == update_process(date, underlying_price)

\* option_engine: the state it leaves and how it ended (raised = "" on return);
\* underlying_price is the spot override it was given and solved_on the spot
\* of the process its solves ran on (0 without a solve)
option_engine(date, base_date, exercise_ovrd, volatility, underlying_price, att) ==
    LET q == ql_option(date, exercise_ovrd)
    IN  IF q.option \in {"ValueError", "RuntimeError"}
        THEN [exercise_type |-> q.exercise_type, option |-> option,
              implied_volatility |-> implied_volatility, ql_process |-> ql_process,
              solves |-> << >>, raised |-> q.option,
              underlying_price |-> underlying_price, solved_on |-> 0]
        ELSE
        LET process == update_process(date, underlying_price)
            key == EffectiveDate(date, base_date)
            cache == CacheAfterOverride(implied_volatility, key, volatility)
            solves == IF KeyError(cache, key) THEN Solves(key, att) ELSE << >>
            solved == IF solves # << >> THEN CacheAfterSolve(cache, key, solves) ELSE cache
        IN  [exercise_type |-> q.exercise_type, option |-> q.option,
             implied_volatility |-> solved,
             ql_process |-> IF SolveRaised(solves) THEN process
                            ELSE volatility_update(process, solved[key]),
             solves |-> solves,
             raised |-> IF SolveRaised(solves) THEN "RuntimeError" ELSE "",
             underlying_price |-> underlying_price,
             solved_on |-> IF solves # << >>
                           THEN ProcessAtSolve(date, underlying_price).spot
                           ELSE 0]

\* ------------------------------------------------------------------------
\* intrinsic
\* ------------------------------------------------------------------------
\* variant of intrinsic without the floor at zero
intrinsic_unfloored(date) ==
    IF date > option_maturity THEN 0
    ELSE LET spot == spot_price(date)
         IN  IF opt_type = "CALL" THEN spot - strike
             ELSE IF opt_type = "PUT" THEN strike - spot
             ELSE 0

intrinsic(date) ==
    IF date > option_maturity THEN 0
    ELSE LET spot == spot_price(date)
             value == IF opt_type = "CALL" THEN spot - strike
                      ELSE IF opt_type = "PUT" THEN strike - spot
                      ELSE 0
         IN  IF value < 0 THEN 0 ELSE value

\* ------------------------------------------------------------------------
\* Actions
\* ------------------------------------------------------------------------
\* a single option is modelled: no second instrument, no currency instrument
SharedUnused ==
    /\ caches = << >>
    /\ calls = << >>
    /\ latest = "none"
    /\ seen = << >>
    /\ serialised = TRUE

CurrencyUnused ==
    /\ fx = << >>
    /\ fx_last = << >>

OisUnused ==
    /\ ois_helper = << >>
    /\ final_rate = 0
    /\ final_spread = 0
    /\ helpers_built = 0
    /\ ois_last = << >>

Idle == [op |-> "idle", date |-> 0, base_date |-> 0, exercise_ovrd |-> None,
         volatility |-> None, underlying_price |-> None, solved_on |-> 0,
         before |-> None, solves |-> << >>,
         result |-> Result("None", 0)]

Init ==
    /\ ts_attributes \in [OPTION_TYPE : OptionTypes, STRIKE_PRICE : {100},
                          OPTION_CONTRACT_SIZE : {100}, MATURITY_DATE : Maturities,
                          EXERCISE_TYPE : ExerciseAttrs]
    /\ opt_type = ts_attributes.OPTION_TYPE
    /\ strike = ts_attributes.STRIKE_PRICE
    /\ contract_size = ts_attributes.OPTION_CONTRACT_SIZE
    /\ option_maturity = ts_attributes.MATURITY_DATE
    /\ exercise_type = ts_attributes.EXERCISE_TYPE
    /\ option = NoOption
    /\ implied_volatility = << >>
    /\ ql_process = [vol |-> 0, spot |-> 0]
    /\ last = Idle
    /\ SharedUnused
    /\ CurrencyUnused
    /\ OisUnused

\* the record of a call: its arguments, the spot of the process its solves
\* ran on, what the cache held under the effective date when it started, its
\* solver invocations and its result
Called(op, date, base_date, exercise_ovrd, volatility, underlying_price, solved_on, solves, result) ==
    [op |-> op, date |-> date, base_date |-> base_date, exercise_ovrd |-> exercise_ovrd,
     volatility |-> volatility, underlying_price |-> underlying_price,
     solved_on |-> solved_on,
     before |-> DictGet(implied_volatility, IF date > base_date THEN base_date ELSE date),
     solves |-> solves, result |-> result]

\* a call that returns before building a contract
Returns(op, date, base_date, exercise_ovrd, volatility, result) ==
    /\ last' = Called(op, date, base_date, exercise_ovrd, volatility, None, 0, << >>, result)
    /\ UNCHANGED <<static, exercise_type, option, implied_volatility, ql_process>>
    /\ UNCHANGED elsewhere

\* the state a call leaves after option_engine ended as e: process is the
\* pricing process at the time the result is evaluated
Engine(op, date, base_date, exercise_ovrd, volatility, e, process, result) ==
    /\ exercise_type' = e.exercise_type
    /\ option' = e.option
    /\ implied_volatility' = e.implied_volatility
    /\ ql_process' = IF e.raised = "" THEN process ELSE e.ql_process
    /\ last' = Called(op, date, base_date, exercise_ovrd, volatility, e.underlying_price,
                      e.solved_on, e.solves,
                      IF e.raised = "" THEN result ELSE Result(e.raised, 0))
    /\ UNCHANGED static
    /\ UNCHANGED elsewhere

price(date, base_date, exercise_ovrd, volatility, underlying_price) ==
    IF date >= option_maturity
    THEN Returns("price", date, base_date, exercise_ovrd, volatility,
                 Result("value", IF option_maturity >= base_date
                                 THEN intrinsic(option_maturity)
                                 ELSE intrinsic(base_date)))
    ELSE \E att \in Attempts(date, base_date, exercise_ovrd, volatility) :
            LET e == option_engine(date, base_date, exercise_ovrd, volatility,
                                   underlying_price, att)
            IN  Engine("price", date, base_date, exercise_ovrd, volatility, e, e.ql_process, Result("NPV", 0))

price_underlying(date, spot_price_arg, base_date, exercise_ovrd, volatility) ==
    \E att \in Attempts(date, base_date, exercise_ovrd, volatility) :
        LET e == option_engine(date, base_date, exercise_ovrd, volatility, None, att)
        IN  Engine("price_underlying", date, base_date, exercise_ovrd, volatility, e,
                   spot_price_update(e.ql_process, spot_price_arg), Result("NPV", 0))

\* variant of delta whose expired branch takes a zero payoff as positive
delta_nonnegative(date, base_date, exercise_ovrd, volatility, underlying_price) ==
    IF date >= option_maturity
    THEN Returns("delta", date, base_date, exercise_ovrd, volatility,
                 Result("value", IF intrinsic(option_maturity) >= 0 THEN 1 ELSE 0))
    ELSE \E att \in Attempts(date, base_date, exercise_ovrd, volatility) :
            LET e == option_engine(date, base_date, exercise_ovrd, volatility,
                                   underlying_price, att)
            IN  Engine("delta", date, base_date, exercise_ovrd, volatility, e, e.ql_process, Result("delta", 0))

delta(date, base_date, exercise_ovrd, volatility, underlying_price) ==
    IF date >= option_maturity
    THEN Returns("delta", date, base_date, exercise_ovrd, volatility,
                 Result("value", IF intrinsic(option_maturity) > 0 THEN 1 ELSE 0))
    ELSE \E att \in Attempts(date, base_date, exercise_ovrd, volatility) :
            LET e == option_engine(date, base_date, exercise_ovrd, volatility,
                                   underlying_price, att)
            IN  Engine("delta", date, base_date, exercise_ovrd, volatility, e, e.ql_process, Result("delta", 0))

delta_underlying(date, spot_price_arg, base_date, exercise_ovrd, volatility) ==
    \E att \in Attempts(date, base_date, exercise_ovrd, volatility) :
        LET e == option_engine(date, base_date, exercise_ovrd, volatility, None, att)
        IN  Engine("delta_underlying", date, base_date, exercise_ovrd, volatility, e,
                   spot_price_update(e.ql_process, spot_price_arg), Result("delta", 0))

gamma(date, base_date, exercise_ovrd, volatility, underlying_price) ==
    IF date >= option_maturity
    THEN Returns("gamma", date, base_date, exercise_ovrd, volatility, Result("value", 0))
    ELSE \E att \in Attempts(date, base_date, exercise_ovrd, volatility) :
            LET e == option_engine(date, base_date, exercise_ovrd, volatility,
                                   underlying_price, att)
            IN  Engine("gamma", date, base_date, exercise_ovrd, volatility, e, e.ql_process, Result("gamma", 0))

theta(date, base_date, exercise_ovrd, volatility, underlying_price) ==
    IF date >= option_maturity
    THEN Returns("theta", date, base_date, exercise_ovrd, volatility, Result("value", 0))
    ELSE \E att \in Attempts(date, base_date, exercise_ovrd, volatility) :
            LET e == option_engine(date, base_date, exercise_ovrd, volatility,
                                   underlying_price, att)
            IN  Engine("theta", date, base_date, exercise_ovrd, volatility, e, e.ql_process, Result("theta", 0))

\* variant of Sensitivity that lets the engine's error reach the caller
Sensitivity_propagates(stored_type, greek, engine_raises) ==
    IF stored_type = "AMERICAN" THEN Result("None", 0)
    ELSE IF engine_raises THEN Result("RuntimeError", 0)
    ELSE Result(greek, 0)

\* what vega and rho return once option_engine returned: the stored exercise
\* type decides, then the engine's value, or 0 when the engine raises
Sensitivity(stored_type, greek, engine_raises) ==
    IF stored_type = "AMERICAN" THEN Result("None", 0)
    ELSE IF engine_raises THEN Result("value", 0)
    ELSE Result(greek, 0)

\* whether the engine raises when asked for the sensitivity: a choice only when
\* the call gets as far as asking
EngineRaises(date, exercise_ovrd) ==
    LET q == ql_option(date, exercise_ovrd)
    IN  IF q.option \in {"ValueError", "RuntimeError"} \/ q.exercise_type = "AMERICAN"
        THEN {FALSE}
        ELSE BOOLEAN

\* variant of vega without the expiry guard
vega_unguarded(date, base_date, exercise_ovrd, volatility, underlying_price) ==
    \E att \in Attempts(date, base_date, exercise_ovrd, volatility),
       engine_raises \in EngineRaises(date, exercise_ovrd) :
        LET e == option_engine(date, base_date, exercise_ovrd, volatility,
                               underlying_price, att)
        IN  Engine("vega", date, base_date, exercise_ovrd, volatility, e, e.ql_process,
                   Sensitivity(e.exercise_type, "vega", engine_raises))

vega(date, base_date, exercise_ovrd, volatility, underlying_price) ==
    IF date >= option_maturity
    THEN Returns("vega", date, base_date, exercise_ovrd, volatility, Result("value", 0))
    ELSE \E att \in Attempts(date, base_date, exercise_ovrd, volatility),
            engine_raises \in EngineRaises(date, exercise_ovrd) :
            LET e == option_engine(date, base_date, exercise_ovrd, volatility,
                                   underlying_price, att)
            IN  Engine("vega", date, base_date, exercise_ovrd, volatility, e, e.ql_process,
                       Sensitivity(e.exercise_type, "vega", engine_raises))

rho(date, base_date, exercise_ovrd, volatility, underlying_price) ==
    IF date >= option_maturity
    THEN Returns("rho", date, base_date, exercise_ovrd, volatility, Result("value", 0))
    ELSE \E att \in Attempts(date, base_date, exercise_ovrd, volatility),
            engine_raises \in EngineRaises(date, exercise_ovrd) :
            LET e == option_engine(date, base_date, exercise_ovrd, volatility,
                                   underlying_price, att)
            IN  Engine("rho", date, base_date, exercise_ovrd, volatility, e, e.ql_process,
                       Sensitivity(e.exercise_type, "rho", engine_raises))

\* variant of implied_vol that goes through option_engine on every call
implied_vol_rebuilds(date, target, spot_price_arg, exercise_ovrd, volatility, outcome) ==
    LET e == option_engine(date, date, exercise_ovrd, volatility, None,
                           <<SolverFailure, SolverFailure>>)
        process == IF spot_price_arg # None
                   THEN spot_price_update(e.ql_process, spot_price_arg[1])
                   ELSE e.ql_process
        solve == [targetValue |-> target, accuracy |-> "default",
                  maxEvaluations |-> 0, outcome |-> outcome]
    IN  /\ exercise_type' = e.exercise_type
        /\ option' = e.option
        /\ implied_volatility' = e.implied_volatility
        /\ ql_process' = IF e.raised = "" THEN process ELSE e.ql_process
        /\ last' = Called("implied_vol", date, date, exercise_ovrd, volatility, None, 0,
                          IF e.raised = "" THEN <<solve>> ELSE << >>,
                          IF e.raised # "" THEN Result(e.raised, 0)
                          ELSE IF outcome.ok THEN Result("impliedVolatility", outcome.vol)
                          ELSE Result("RuntimeError", 0))
        /\ UNCHANGED static
        /\ UNCHANGED elsewhere

implied_vol(date, target, spot_price_arg, exercise_ovrd, volatility, outcome) ==
    LET e == IF option = NoOption
             THEN option_engine(date, date, exercise_ovrd, volatility, None,
                                <<SolverFailure, SolverFailure>>)
             ELSE [exercise_type |-> exercise_type, option |-> option,
                   implied_volatility |-> implied_volatility, ql_process |-> ql_process,
                   solves |-> << >>, raised |-> "", underlying_price |-> None,
                   solved_on |-> 0]
        process == IF spot_price_arg # None
                   THEN spot_price_update(e.ql_process, spot_price_arg[1])
                   ELSE e.ql_process
        solve == [targetValue |-> target, accuracy |-> "default",
                  maxEvaluations |-> 0, outcome |-> outcome]
    IN  /\ exercise_type' = e.exercise_type
        /\ option' = e.option
        /\ implied_volatility' = e.implied_volatility
        /\ ql_process' = IF e.raised = "" THEN process ELSE e.ql_process
        /\ last' = Called("implied_vol", date, date, exercise_ovrd,
                          IF option = NoOption THEN volatility ELSE None, None, 0,
                          IF e.raised = "" THEN <<solve>> ELSE << >>,
                          IF e.raised # "" THEN Result(e.raised, 0)
                          ELSE IF outcome.ok THEN Result("impliedVolatility", outcome.vol)
                          ELSE Result("RuntimeError", 0))
        /\ UNCHANGED static
        /\ UNCHANGED elsewhere

\* variant of optionality that takes the intrinsic value at the requested date
optionality_unclamped(date, base_date, exercise_ovrd, volatility, underlying_price) ==
    IF date >= option_maturity
    THEN Returns("optionality", date, base_date, exercise_ovrd, volatility, Result("value", 0))
    ELSE \E att \in Attempts(date, base_date, exercise_ovrd, volatility) :
            LET e == option_engine(date, base_date, exercise_ovrd, volatility,
                                   underlying_price, att)
            IN  Engine("optionality", date, base_date, exercise_ovrd, volatility, e, e.ql_process,
                       Result("NPV-intrinsic", intrinsic(date)))

optionality(date, base_date, exercise_ovrd, volatility, underlying_price) ==
    IF date >= option_maturity
    THEN Returns("optionality", date, base_date, exercise_ovrd, volatility, Result("value", 0))
    ELSE \E att \in Attempts(date, base_date, exercise_ovrd, volatility) :
            LET e == option_engine(date, base_date, exercise_ovrd, volatility,
                                   underlying_price, att)
            IN  Engine("optionality", date, base_date, exercise_ovrd, volatility, e, e.ql_process,
                       Result("NPV-intrinsic",
                              IF date > base_date THEN intrinsic(base_date)
                              ELSE intrinsic(date)))

\* variant of underlying_price without the expiry guard
underlying_price_unguarded(date, base_date, exercise_ovrd, volatility) ==
    \E att \in Attempts(date, base_date, exercise_ovrd, volatility) :
        LET e == option_engine(date, base_date, exercise_ovrd, volatility, None, att)
        IN  Engine("underlying_price", date, base_date, exercise_ovrd, volatility, e, e.ql_process,
                   Result("value", e.ql_process.spot))

underlying_price_(date, base_date, exercise_ovrd, volatility) ==
    IF date >= option_maturity
    THEN Returns("underlying_price", date, base_date, exercise_ovrd, volatility, Result("value", 0))
    ELSE \E att \in Attempts(date, base_date, exercise_ovrd, volatility) :
            LET e == option_engine(date, base_date, exercise_ovrd, volatility, None, att)
            IN  Engine("underlying_price", date, base_date, exercise_ovrd, volatility, e, e.ql_process,
                       Result("value", e.ql_process.spot))

\* the caller takes the result; the next call starts from here
Return ==
    /\ last.op # "idle"
    /\ last' = Idle
    /\ UNCHANGED <<static, exercise_type, option, implied_volatility, ql_process>>
    /\ UNCHANGED elsewhere

\* the caller holds no pending result and may call
Ready == last.op = "idle"

Next ==
    \/ Ready /\ \E date \in Dates, base_date \in Dates, exercise_ovrd \in ExerciseOvrds,
          volatility \in Volatilities, underlying_price \in UnderlyingPrices :
            price(date, base_date, exercise_ovrd, volatility, underlying_price)
    \/ Ready /\ \E date \in Dates, base_date \in Dates, exercise_ovrd \in ExerciseOvrds,
          volatility \in Volatilities, underlying_price \in UnderlyingPrices :
            delta(date, base_date, exercise_ovrd, volatility, underlying_price)
    \/ Ready /\ \E date \in Dates, base_date \in Dates, exercise_ovrd \in ExerciseOvrds,
          volatility \in Volatilities, underlying_price \in UnderlyingPrices :
            gamma(date, base_date, exercise_ovrd, volatility, underlying_price)
    \/ Ready /\ \E date \in Dates, base_date \in Dates, exercise_ovrd \in ExerciseOvrds,
          volatility \in Volatilities, underlying_price \in UnderlyingPrices :
            theta(date, base_date, exercise_ovrd, volatility, underlying_price)
    \/ Ready /\ \E date \in Dates, base_date \in Dates, exercise_ovrd \in ExerciseOvrds,
          volatility \in Volatilities, underlying_price \in UnderlyingPrices :
            vega(date, base_date, exercise_ovrd, volatility, underlying_price)
    \/ Ready /\ \E date \in Dates, base_date \in Dates, exercise_ovrd \in ExerciseOvrds,
          volatility \in Volatilities, underlying_price \in UnderlyingPrices :
            rho(date, base_date, exercise_ovrd, volatility, underlying_price)
    \/ Ready /\ \E date \in Dates, base_date \in Dates, exercise_ovrd \in ExerciseOvrds,
          volatility \in Volatilities, underlying_price \in UnderlyingPrices :
            optionality(date, base_date, exercise_ovrd, volatility, underlying_price)
    \/ Ready /\ \E date \in Dates, base_date \in Dates, exercise_ovrd \in ExerciseOvrds,
          volatility \in Volatilities :
            underlying_price_(date, base_date, exercise_ovrd, volatility)
    \/ Ready /\ \E date \in Dates, base_date \in Dates, exercise_ovrd \in ExerciseOvrds,
          volatility \in Volatilities, spot \in SpotPrices :
            price_underlying(date, spot, base_date, exercise_ovrd, volatility)
    \/ Ready /\ \E date \in Dates, base_date \in Dates, exercise_ovrd \in ExerciseOvrds,
          volatility \in Volatilities, spot \in SpotPrices :
            delta_underlying(date, spot, base_date, exercise_ovrd, volatility)
    \/ Ready /\ \E date \in Dates, target \in Targets, exercise_ovrd \in ExerciseOvrds,
          spot \in {None} \cup {Some(p) : p \in SpotPrices},
          outcome \in SolverOutcomes :
            implied_vol(date, target, spot, exercise_ovrd, Some(vol_value), outcome)
    \/ Return

Spec == Init /\ [][Next]_vars

\* ------------------------------------------------------------------------
\* implied_vol() followed by price(): the contract and the cache entry that
\* the first implied_vol() call leaves behind
\* ------------------------------------------------------------------------
ImpliedVolNext ==
    \/ Ready /\ \E date \in Dates, target \in Targets, exercise_ovrd \in ExerciseOvrds,
          spot \in {None} \cup {Some(p) : p \in SpotPrices},
          outcome \in SolverOutcomes :
            implied_vol(date, target, spot, exercise_ovrd, Some(vol_value), outcome)
    \/ Ready /\ \E date \in Dates, base_date \in Dates, volatility \in Volatilities :
            price(date, base_date, None, volatility, None)
    \/ Return

ImpliedVolSpec == Init /\ [][ImpliedVolNext]_vars

\* ------------------------------------------------------------------------
\* Spot overrides: price() with underlying_price, price_underlying() and
\* delta_underlying() on one instrument
\* ------------------------------------------------------------------------
\* underlying_price arguments of price(): none, or a spot that is neither a
\* market spot nor one of SpotPrices
UnderlyingOvrds == {None, Some(95)}

SpotNext ==
    \/ Ready /\ \E date \in Dates, base_date \in Dates, volatility \in Volatilities,
          underlying_price \in UnderlyingOvrds :
            price(date, base_date, None, volatility, underlying_price)
    \/ Ready /\ \E date \in Dates, base_date \in Dates, volatility \in Volatilities,
          spot \in SpotPrices :
            price_underlying(date, spot, base_date, None, volatility)
    \/ Ready /\ \E date \in Dates, base_date \in Dates, volatility \in Volatilities,
          spot \in SpotPrices :
            delta_underlying(date, spot, base_date, None, volatility)
    \/ Return

SpotSpec == Init /\ [][SpotNext]_vars

\* ------------------------------------------------------------------------
\* Payoff rules: CALL and PUT instruments over a range of strikes
\* ------------------------------------------------------------------------
\* strikes below, at and above the spots of the underlying's quote series
Strikes == {100, 110, 120, 130}

PayoffOptionTypes == {"CALL", "PUT"}

PayoffInit ==
    /\ ts_attributes \in [OPTION_TYPE : PayoffOptionTypes, STRIKE_PRICE : Strikes,
                          OPTION_CONTRACT_SIZE : {100}, MATURITY_DATE : Maturities,
                          EXERCISE_TYPE : {"European"}]
    /\ opt_type = ts_attributes.OPTION_TYPE
    /\ strike = ts_attributes.STRIKE_PRICE
    /\ contract_size = ts_attributes.OPTION_CONTRACT_SIZE
    /\ option_maturity = ts_attributes.MATURITY_DATE
    /\ exercise_type = ts_attributes.EXERCISE_TYPE
    /\ option = NoOption
    /\ implied_volatility = << >>
    /\ ql_process = [vol |-> 0, spot |-> 0]
    /\ last = Idle
    /\ SharedUnused
    /\ CurrencyUnused
    /\ OisUnused

\* a call of the public method intrinsic(date)
intrinsic_(date) ==
    Returns("intrinsic", date, date, None, None, Result("value", intrinsic(date)))

PayoffNext ==
    \/ Ready /\ \E date \in Dates : intrinsic_(date)
    \/ Ready /\ \E date \in Dates, base_date \in Dates, volatility \in Volatilities :
            delta(date, base_date, None, volatility, None)
    \/ Return

PayoffSpec == PayoffInit /\ [][PayoffNext]_vars

\* ------------------------------------------------------------------------
\* Two instruments on one pricing process (set_ql_process hands both the same
\* object).  A price() call is a sequence of steps, one per statement that
\* reads or writes the process; the callers either serialise their calls or
\* let the steps of two calls interleave.
\* ------------------------------------------------------------------------
Instruments == {"A", "B"}

\* evaluation dates of the calls, all before maturity
SharedDates == {1, 2}

\* positions of a call that has started and not ended
InProgress == {"resolve", "solve", "evaluate"}

SharedIdleCall == [pc |-> "idle", date |-> 0, base_date |-> 0, volatility |-> None,
                   key |-> 0, evaluated |-> [vol |-> 0, spot |-> 0]]

SharedInit ==
    /\ ts_attributes = [OPTION_TYPE |-> "CALL", STRIKE_PRICE |-> 100,
                        OPTION_CONTRACT_SIZE |-> 100, MATURITY_DATE |-> MaxDate + 1,
                        EXERCISE_TYPE |-> "European"]
    /\ opt_type = ts_attributes.OPTION_TYPE
    /\ strike = ts_attributes.STRIKE_PRICE
    /\ contract_size = ts_attributes.OPTION_CONTRACT_SIZE
    /\ option_maturity = ts_attributes.MATURITY_DATE
    /\ exercise_type = ts_attributes.EXERCISE_TYPE
    /\ option = NoOption
    /\ implied_volatility = << >>
    /\ last = Idle
    /\ ql_process = [vol |-> 0, spot |-> 0]
    /\ caches = [i \in Instruments |-> << >>]
    /\ calls = [i \in Instruments |-> SharedIdleCall]
    /\ latest = "none"
    /\ seen = None
    /\ serialised \in BOOLEAN
    /\ CurrencyUnused
    /\ OisUnused

\* no call of another thread is between its first step and its end
Exclusive(i) == \A j \in Instruments \ {i} : calls[j].pc \notin InProgress

\* the solver outcomes of one except-KeyError block
SharedAttempts ==
    {<<s, SolverFailure>> : s \in SolverOutcomes \ {SolverFailure}}
    \cup {<<SolverFailure, s>> : s \in SolverOutcomes}

\* what a step of instrument i leaves alone besides what it names
SharedFrame ==
    UNCHANGED <<static, exercise_type, option, implied_volatility, last, serialised,
                currency_vars, ois_vars>>

\* price() up to update_process: the contract is built and the process gets
\* the date's spot and the placeholder volatility
SharedCall(i, date, base_date, volatility) ==
    /\ calls[i].pc \notin InProgress
    /\ serialised => Exclusive(i)
    /\ date < option_maturity
    /\ ql_process' = update_process(date, None)
    /\ calls' = [calls EXCEPT ![i] =
                    [pc |-> "resolve", date |-> date, base_date |-> base_date,
                     volatility |-> volatility, key |-> EffectiveDate(date, base_date),
                     evaluated |-> [vol |-> 0, spot |-> 0]]]
    /\ latest' = i
    /\ seen' = None
    /\ UNCHANGED caches
    /\ SharedFrame

\* variant of SharedResolve that finds the entry and leaves the process alone
SharedResolve_nopush(i) ==
    /\ calls[i].pc = "resolve"
    /\ LET key == calls[i].key
           cache == CacheAfterOverride(caches[i], key, calls[i].volatility)
       IN  /\ caches' = [caches EXCEPT ![i] = cache]
           /\ calls' = [calls EXCEPT ![i].pc = IF KeyError(cache, key) THEN "solve"
                                               ELSE "evaluate"]
           /\ ql_process' = ql_process
    /\ UNCHANGED <<latest, seen>>
    /\ SharedFrame

\* the override store and the try block: the cached quote goes to the process,
\* or KeyError sends the call to the solver
SharedResolve(i) ==
    /\ calls[i].pc = "resolve"
    /\ LET key == calls[i].key
           cache == CacheAfterOverride(caches[i], key, calls[i].volatility)
       IN  /\ caches' = [caches EXCEPT ![i] = cache]
           /\ IF KeyError(cache, key)
              THEN /\ calls' = [calls EXCEPT ![i].pc = "solve"]
                   /\ ql_process' = ql_process
              ELSE /\ calls' = [calls EXCEPT ![i].pc = "evaluate"]
                   /\ ql_process' = volatility_update(ql_process, cache[key])
    /\ UNCHANGED <<latest, seen>>
    /\ SharedFrame

\* variant of SharedSolve that caches the solved volatility and leaves the
\* process alone
SharedSolve_nopush(i, att) ==
    /\ calls[i].pc = "solve"
    /\ LET key == calls[i].key
           solves == Solves(key, att)
           cache == CacheAfterSolve(caches[i], key, solves)
       IN  /\ caches' = [caches EXCEPT ![i] = cache]
           /\ calls' = [calls EXCEPT ![i].pc = IF SolveRaised(solves) THEN "raised"
                                               ELSE "evaluate"]
           /\ ql_process' = ql_process
    /\ UNCHANGED <<latest, seen>>
    /\ SharedFrame

\* the except-KeyError block: solve, retry, cache store, volatility_update;
\* the call ends here when the retry raises too
SharedSolve(i, att) ==
    /\ calls[i].pc = "solve"
    /\ LET key == calls[i].key
           solves == Solves(key, att)
           cache == CacheAfterSolve(caches[i], key, solves)
       IN  /\ caches' = [caches EXCEPT ![i] = cache]
           /\ IF SolveRaised(solves)
              THEN /\ calls' = [calls EXCEPT ![i].pc = "raised"]
                   /\ ql_process' = ql_process
              ELSE /\ calls' = [calls EXCEPT ![i].pc = "evaluate"]
                   /\ ql_process' = volatility_update(ql_process, cache[key])
    /\ UNCHANGED <<latest, seen>>
    /\ SharedFrame

\* option.NPV(): the engine prices with what the process holds now
SharedEvaluate(i) ==
    /\ calls[i].pc = "evaluate"
    /\ calls' = [calls EXCEPT ![i].pc = "returned", ![i].evaluated = ql_process]
    /\ UNCHANGED <<ql_process, caches, latest, seen>>
    /\ SharedFrame

\* implied_vol() of an instrument that already holds a contract: it solves on
\* the process as it is, without updating it
SharedRead(j) ==
    /\ calls[j].pc \in {"returned", "raised"}
    /\ serialised => Exclusive(j)
    /\ seen' = Some([by |-> j, vol |-> ql_process.vol, spot |-> ql_process.spot])
    /\ UNCHANGED <<ql_process, caches, calls, latest>>
    /\ SharedFrame

SharedNext ==
    \/ \E i \in Instruments, date \in SharedDates, base_date \in SharedDates,
          volatility \in Volatilities : SharedCall(i, date, base_date, volatility)
    \/ \E i \in Instruments : SharedResolve(i)
    \/ \E i \in Instruments, att \in SharedAttempts : SharedSolve(i, att)
    \/ \E i \in Instruments : SharedEvaluate(i)
    \/ \E j \in Instruments : SharedRead(j)

SharedSpec == SharedInit /\ [][SharedNext]_vars

\* ------------------------------------------------------------------------
\* Currency.value and Cash.value (tsfin.instruments.currencyspot).  A currency
\* code is the sequence of its characters.
\* ------------------------------------------------------------------------
FxClasses == {"Currency", "Cash"}

\* CURRENCY attribute of the instrument
QuoteCurrencies == {<<"U", "S", "D">>, <<"B", "R", "L">>, <<"E", "U", "R">>}

\* BASE_CURRENCY attribute of the instrument
BaseCurrencies == {<<"U", "S", "D">>, <<"B", "R", "L">>}

\* codes a caller may pass as currency: three letters in either case, a code
\* of neither currency, two letters, four letters, or nothing
RequestedCodes ==
    {None} \cup {Some(c) : c \in {<<"u", "s", "d">>, <<"U", "S", "D">>, <<"b", "r", "l">>,
                                  <<"B", "R", "L">>, <<"E", "U", "R">>, <<"G", "B", "P">>,
                                  <<"U", "S">>, <<"E", "U", "R", "O">>}}

FxDates == {1, 2}

\* str.upper on one character
char_upper(c) ==
    CASE c = "u" -> "U" [] c = "s" -> "S" [] c = "d" -> "D"
      [] c = "b" -> "B" [] c = "r" -> "R" [] c = "l" -> "L"
      [] OTHER -> c

\* tsfin.base.to_upper_list on a string: the string in upper case
to_upper_list(code) == [i \in 1..Len(code) |-> char_upper(code[i])]

\* numpy.nan
NaN == [kind |-> "nan", num |-> 0, den |-> 1]

\* the number num/den
Number(num, den) == [kind |-> "number", num |-> num, den |-> den]

\* quotes.get_values(index=date): the quote of the date; an instrument quoted
\* in its own currency trades at 1
get_values(date) ==
    IF fx.currency = fx.base_currency THEN Number(1, 1) ELSE Number(date + 1, 1)

\* 1/quote
Reciprocal(q) == Number(q.den, q.num)

\* what value() hands back: the result, the number of get_values calls it
\* made, and whether it fetched the quote series object of another instrument
Outcome(result, reads, fetched) == [result |-> result, reads |-> reads, fetched |-> fetched]

\* variant of Currency_value without the length test
Currency_value_nolength(date, currency) ==
    LET code == IF currency = None THEN fx.currency ELSE to_upper_list(currency[1])
    IN  IF fx.currency = fx.base_currency THEN Outcome(Number(1, 1), 0, FALSE)
        ELSE IF code = fx.currency THEN Outcome(get_values(date), 1, FALSE)
        ELSE IF code = fx.base_currency THEN Outcome(Reciprocal(get_values(date)), 1, FALSE)
        ELSE Outcome(NaN, 0, FALSE)

\* Currency.value
Currency_value(date, currency) ==
    LET code == IF currency = None THEN fx.currency ELSE to_upper_list(currency[1])
    IN  IF Len(code) # 3 THEN Outcome(NaN, 0, FALSE)
        ELSE IF fx.currency = fx.base_currency THEN Outcome(Number(1, 1), 0, FALSE)
        ELSE IF code = fx.currency THEN Outcome(get_values(date), 1, FALSE)
        ELSE IF code = fx.base_currency THEN Outcome(Reciprocal(get_values(date)), 1, FALSE)
        ELSE Outcome(NaN, 0, FALSE)

\* Cash.value: the quotes of currency_timeseries are fetched first
Cash_value(date, currency) ==
    LET code == IF currency = None THEN fx.currency ELSE to_upper_list(currency[1])
    IN  IF Len(code) # 3 THEN Outcome(NaN, 0, TRUE)
        ELSE IF fx.currency = fx.base_currency THEN Outcome(Number(1, 1), 0, TRUE)
        ELSE IF code = fx.currency THEN Outcome(get_values(date), 1, TRUE)
        ELSE IF code = fx.base_currency THEN Outcome(Reciprocal(get_values(date)), 1, TRUE)
        ELSE Outcome(NaN, 0, TRUE)

FxIdle == [op |-> "idle", date |-> 0, currency |-> None, outcome |-> Outcome(NaN, 0, FALSE)]

\* no option is modelled
OptionUnused ==
    /\ ts_attributes = << >>
    /\ opt_type = ""
    /\ strike = 0
    /\ contract_size = 0
    /\ option_maturity = 0
    /\ exercise_type = ""
    /\ option = NoOption
    /\ implied_volatility = << >>
    /\ ql_process = [vol |-> 0, spot |-> 0]
    /\ last = Idle

CurrencyInit ==
    /\ fx \in [class : FxClasses, currency : QuoteCurrencies, base_currency : BaseCurrencies]
    /\ fx_last = FxIdle
    /\ OptionUnused
    /\ SharedUnused
    /\ OisUnused

\* a call of value() on a Currency instrument
CurrencyValue(date, currency) ==
    /\ fx.class = "Currency"
    /\ fx_last' = [op |-> "value", date |-> date, currency |-> currency,
                   outcome |-> Currency_value(date, currency)]
    /\ UNCHANGED <<fx, static, exercise_type, option, implied_volatility, ql_process, last,
                   shared_vars, ois_vars>>

\* a call of value() on a Cash instrument
CashValue(date, currency) ==
    /\ fx.class = "Cash"
    /\ fx_last' = [op |-> "value", date |-> date, currency |-> currency,
                   outcome |-> Cash_value(date, currency)]
    /\ UNCHANGED <<fx, static, exercise_type, option, implied_volatility, ql_process, last,
                   shared_vars, ois_vars>>

CurrencyNext ==
    \/ \E date \in FxDates, currency \in RequestedCodes : CurrencyValue(date, currency)
    \/ \E date \in FxDates, currency \in RequestedCodes : CashValue(date, currency)

CurrencySpec == CurrencyInit /\ [][CurrencyNext]_vars

\* ------------------------------------------------------------------------
\* OISRate.rate_helper: the helper object and the two quotes behind it.
\* Rates and spreads are integers in basis points.
\* ------------------------------------------------------------------------
\* reference dates handed to rate_helper
OisDates == 0 .. 5

\* spread arguments of rate_helper (0 is the default)
Spreads == {0, 5, 10, 25}

\* is_expired(date) of the deposit-rate base class
is_expired(date) == date >= 5

\* get_values(index=date, fill_value=nan): the rate of the date, None for NaN
rate_get_values(date) ==
    IF date = 2 THEN None ELSE Some(300 + 10 * date)

\* tenor(date) of the deposit-rate base class raises ValueError
tenor_raises(date) == date = 4

\* variant of rate_helper_guard that does not catch the ValueError of tenor
rate_helper_guard_notenor(date) ==
    IF is_expired(date) THEN "expired"
    ELSE IF rate_get_values(date) = None THEN "nan"
    ELSE ""

\* the early returns of rate_helper: why the call hands back None, "" when
\* it goes on
rate_helper_guard(date) ==
    IF is_expired(date) THEN "expired"
    ELSE IF rate_get_values(date) = None THEN "nan"
    ELSE IF tenor_raises(date) THEN "tenor"
    ELSE ""

\* set_rate_helper: a new OISRateHelper object; its rate is a handle on the
\* final_rate quote, its overnight spread is the number final_spread.value()
\* gives when the object is constructed
set_rate_helper ==
    [id |-> helpers_built + 1, rate |-> "QuoteHandle(final_rate)",
     overnightSpread |-> final_spread]

\* variant of EnsureHelper that constructs a helper on every call
EnsureHelper_always == set_rate_helper

\* if self._rate_helper is None: self.set_rate_helper()
EnsureHelper == IF ois_helper = None THEN set_rate_helper ELSE ois_helper

\* the rate a helper quotes: what its handle reads from the rate quote
HelperRate(h, rate_quote) ==
    IF h.rate = "QuoteHandle(final_rate)" THEN rate_quote ELSE 0

\* the spread a helper adds to the overnight rate
HelperSpread(h) == h.overnightSpread

\* the record of a call: its arguments, whether it found a helper object,
\* which early return it took and the identity of the object it handed back
OisIdle == [op |-> "idle", date |-> 0, spread |-> 0, found |-> FALSE, guard |-> "",
            returned |-> None]

OisInit ==
    /\ ois_helper = None
    /\ final_rate = 0
    /\ final_spread = 0
    /\ helpers_built = 0
    /\ ois_last = OisIdle
    /\ OptionUnused
    /\ SharedUnused
    /\ CurrencyUnused

rate_helper(date, spread) ==
    LET guard == rate_helper_guard(date)
        helper == EnsureHelper
    IN  /\ IF guard # ""
           THEN /\ ois_last' = [op |-> "rate_helper", date |-> date, spread |-> spread,
                                found |-> ois_helper # None, guard |-> guard,
                                returned |-> None]
                /\ UNCHANGED <<ois_helper, final_rate, final_spread, helpers_built>>
           ELSE /\ ois_helper' = helper
                /\ helpers_built' = IF helper = ois_helper THEN helpers_built
                                     ELSE helpers_built + 1
                /\ final_rate' = rate_get_values(date)[1]
                /\ final_spread' = spread
                /\ ois_last' = [op |-> "rate_helper", date |-> date, spread |-> spread,
                                found |-> ois_helper # None, guard |-> guard,
                                returned |-> Some(helper.id)]
        /\ UNCHANGED <<static, exercise_type, option, implied_volatility, ql_process, last,
                       shared_vars, currency_vars>>

OisNext == \E date \in OisDates, spread \in Spreads : rate_helper(date, spread)

OisSpec == OisInit /\ [][OisNext]_vars

\* ------------------------------------------------------------------------
\* Properties
\* ------------------------------------------------------------------------
ValuationOps == {"price", "delta", "gamma", "theta", "vega", "rho", "optionality",
                 "underlying_price", "price_underlying", "delta_underlying"}

\* the call c is a valuation call on a date before maturity
Live(c) == c.op \in ValuationOps /\ c.date < option_maturity

\* the earlier of the call's date and base_date
Key(c) == IF c.date > c.base_date THEN c.base_date ELSE c.date

\* the call got past contract building
Built(c) == c.result.kind # "ValueError"

\* the call returned a result to its caller
Returned(c) == c.result.kind \notin {"ValueError", "RuntimeError"}

\* C1: an entry of the volatility cache is never removed, and its value is
\* changed only by a call that passes a volatility override whose effective
\* date is that entry's key; the new value is then the override.
C1_CacheEntryStable ==
    [][\A d \in DOMAIN implied_volatility :
          /\ d \in DOMAIN implied_volatility'
          /\ implied_volatility'[d] # implied_volatility[d] =>
                /\ last'.volatility # None
                /\ Key(last') = d
                /\ implied_volatility'[d] = last'.volatility[1]]_vars

\* a valuation call without override found an override-supplied entry under
\* its key and returned with the entry as it was
C1_Witness ==
    /\ Live(last) /\ last.volatility = None /\ Returned(last)
    /\ last.before = Some(21)
    /\ implied_volatility[Key(last)] = 21

\* C2: a live valuation call that passes a volatility override never invokes
\* the solver, and once its contract is built it returns with the process
\* holding the override, whatever the cache held before.
C2_OverrideTakesPrecedence ==
    (Live(last) /\ last.volatility # None) =>
        /\ last.solves = << >>
        /\ Built(last) => /\ Returned(last)
                          /\ ql_process.vol = last.volatility[1]
                          /\ implied_volatility[Key(last)] = last.volatility[1]

\* a live call overrode an entry that held a solved volatility
C2_Witness ==
    /\ Live(last) /\ last.volatility = Some(21) /\ last.before = Some(31)
    /\ ql_process.vol = 21 /\ last.solves = << >> /\ Returned(last)

\* price() on a live date without a volatility override
PriceNoOverride(c) == c.op = "price" /\ c.date < option_maturity /\ c.volatility = None

\* C3: a price() call without override that returns leaves an entry under its
\* effective date and the process on that entry; the caller taking the result
\* leaves the cache alone; and a price() call without override that finds an
\* entry under its effective date invokes the solver zero times, leaves the
\* entry as it was and prices with it.  So the second of two price() calls for
\* the same date and base_date uses the volatility the first one cached.
C3_SecondPriceReusesCache ==
    [][/\ (PriceNoOverride(last') /\ last'.result.kind = "NPV") =>
             /\ Key(last') \in DOMAIN implied_volatility'
             /\ ql_process'.vol = implied_volatility'[Key(last')]
       /\ (last.op = "price" /\ last'.op = "idle") =>
             /\ implied_volatility' = implied_volatility
             /\ ql_process' = ql_process
       /\ (PriceNoOverride(last') /\ Key(last') \in DOMAIN implied_volatility) =>
             /\ last'.solves = << >>
             /\ implied_volatility' = implied_volatility
             /\ Built(last') => /\ last'.result.kind = "NPV"
                                /\ ql_process'.vol = implied_volatility[Key(last')]]_vars

\* a second price() without override priced with the solved entry, no solve
C3_Witness ==
    /\ PriceNoOverride(last) /\ last.before = Some(31) /\ last.solves = << >>
    /\ last.result.kind = "NPV" /\ ql_process.vol = 31
    /\ implied_volatility[Key(last)] = 31

\* C4: for a date at or after maturity, price() returns the intrinsic value
\* evaluated at the earlier of maturity and base_date.
C4_ExpiredPriceIsIntrinsicAtMin ==
    (last.op = "price" /\ last.date >= option_maturity) =>
        last.result = Result("value", intrinsic(IF option_maturity <= last.base_date
                                                THEN option_maturity
                                                ELSE last.base_date))

\* C5: when the first solve of a valuation call raises, the solver is invoked
\* a second time with the mid-price of the business day before the effective
\* date; when that retry succeeds the call returns, its result is stored
\* under the effective date and under no other key, and the process holds it.
\* A later valuation call without override that finds an entry under its
\* effective date does not solve and uses that entry.
C5_RetryOnPriorBusinessDay ==
    [][/\ (last'.op \in ValuationOps /\ last'.solves # << >>
             /\ ~last'.solves[1].outcome.ok) =>
             /\ Len(last'.solves) = 2
             /\ last'.solves[1].targetValue = ts_mid_price(Key(last'))
             /\ last'.solves[2].targetValue = ts_mid_price(calendar_advance(Key(last'), -1))
             /\ last'.solves[2].outcome.ok =>
                   /\ Returned(last')
                   /\ Key(last') \notin DOMAIN implied_volatility
                   /\ DOMAIN implied_volatility' = DOMAIN implied_volatility \cup {Key(last')}
                   /\ \A d \in DOMAIN implied_volatility :
                         implied_volatility'[d] = implied_volatility[d]
                   /\ implied_volatility'[Key(last')] = last'.solves[2].outcome.vol
                   /\ ql_process'.vol = last'.solves[2].outcome.vol
       /\ (Live(last') /\ last'.volatility = None /\ Built(last')
             /\ Key(last') \in DOMAIN implied_volatility) =>
             /\ last'.solves = << >>
             /\ ql_process'.vol = implied_volatility[Key(last')]]_vars

\* a live call whose first solve raised and whose retry succeeded
C5_Witness ==
    /\ Live(last) /\ Len(last.solves) = 2 /\ last.solves[2].outcome.ok
    /\ last.date > 1 /\ last.base_date > 1
    /\ implied_volatility[Key(last)] = 31 /\ ql_process.vol = 31 /\ Returned(last)

\* C6: when the first solve and the retry both raise, the call ends with the
\* numerical error, the cache is exactly what it was and holds no entry under
\* the effective date; a later live call without override for a key the cache
\* does not hold invokes the solver again.
C6_DoubleFailurePropagates ==
    [][/\ (last'.op \in ValuationOps /\ Len(last'.solves) = 2
             /\ ~last'.solves[2].outcome.ok) =>
             /\ last'.result.kind = "RuntimeError"
             /\ implied_volatility' = implied_volatility
             /\ Key(last') \notin DOMAIN implied_volatility'
       /\ (Live(last') /\ last'.volatility = None /\ Built(last')
             /\ Key(last') \notin DOMAIN implied_volatility) =>
             /\ last'.solves # << >>
             /\ last'.solves[1].targetValue = ts_mid_price(Key(last'))]_vars

\* a live call ended with the numerical error after two solver invocations,
\* with other entries in the cache
C6_Witness ==
    /\ Live(last) /\ last.result.kind = "RuntimeError" /\ Len(last.solves) = 2
    /\ Key(last) \notin DOMAIN implied_volatility
    /\ implied_volatility # << >>

\* C7: a valuation call invokes the solver at most twice: not at all when it
\* passes an override or the cache holds its key, once when the first solve
\* succeeds, twice when the first solve raises; each invocation is made with
\* accuracy 1.0e-4 and maxEvaluations 100, and the call ends with a value or
\* an error.
C7_SolverInvocationsBounded ==
    last.op \in ValuationOps =>
        /\ Len(last.solves) <= 2
        /\ (last.volatility # None \/ last.before # None) => last.solves = << >>
        /\ (Live(last) /\ last.volatility = None /\ last.before = None /\ Built(last))
              => last.solves # << >>
        /\ Len(last.solves) = 1 => last.solves[1].outcome.ok
        /\ Len(last.solves) = 2 => ~last.solves[1].outcome.ok
        /\ \A i \in 1..Len(last.solves) :
              /\ last.solves[i].accuracy = "1.0e-4"
              /\ last.solves[i].maxEvaluations = 100
        /\ last.result.kind \in {"value", "None", "NPV", "NPV-intrinsic", "delta", "gamma",
                                 "theta", "vega", "rho", "ValueError", "RuntimeError"}

\* a live call solved once and returned
C7_Witness ==
    /\ Live(last) /\ Len(last.solves) = 1 /\ last.solves[1].outcome.ok
    /\ last.solves[1].accuracy = "1.0e-4" /\ last.solves[1].maxEvaluations = 100
    /\ Returned(last)

\* C8: a live valuation call with date after base_date that builds its
\* contract touches the cache under base_date only: an override is stored
\* under base_date, an entry found under base_date is reused without solving,
\* a solve targets the mid-price of base_date, and on return the entry under
\* base_date is the volatility of the process.
C8_FutureDateKeyedByBaseDate ==
    [][(Live(last') /\ last'.date > last'.base_date /\ Built(last')) =>
          /\ \A d \in Dates \ {last'.base_date} :
                /\ d \in DOMAIN implied_volatility' <=> d \in DOMAIN implied_volatility
                /\ d \in DOMAIN implied_volatility =>
                      implied_volatility'[d] = implied_volatility[d]
          /\ last'.volatility # None =>
                implied_volatility'[last'.base_date] = last'.volatility[1]
          /\ (last'.volatility = None /\ last'.base_date \in DOMAIN implied_volatility) =>
                /\ last'.solves = << >>
                /\ implied_volatility'[last'.base_date] = implied_volatility[last'.base_date]
          /\ last'.solves # << >> =>
                last'.solves[1].targetValue = ts_mid_price(last'.base_date)
          /\ Returned(last') =>
                /\ last'.base_date \in DOMAIN implied_volatility'
                /\ ql_process'.vol = implied_volatility'[last'.base_date]]_vars

\* a call for the furthest future date reused the one entry of the cache,
\* which is under base_date
C8_Witness ==
    /\ Live(last) /\ last.date = last.base_date + 2 /\ last.volatility = None
    /\ last.before # None /\ last.solves = << >> /\ Returned(last)
    /\ DOMAIN implied_volatility = {last.base_date}

\* C9: the instrument's static record is what it was built from: the stored
\* exercise style is the style of the time-series attributes, as are the
\* option type, strike, maturity and contract size.
C9_StaticRecordReadOnly ==
    /\ upper(exercise_type) = upper(ts_attributes.EXERCISE_TYPE)
    /\ opt_type = ts_attributes.OPTION_TYPE
    /\ strike = ts_attributes.STRIKE_PRICE
    /\ option_maturity = ts_attributes.MATURITY_DATE
    /\ contract_size = ts_attributes.OPTION_CONTRACT_SIZE

\* C10: on a live date, vega() and rho() that return after building a contract
\* with American exercise return None.
C10_AmericanSensitivityIsNone ==
    (last.op \in {"vega", "rho"} /\ Live(last) /\ Returned(last)
        /\ option = "AmericanExercise") =>
        last.result.kind = "None"

\* C11: a live vega() or rho() call that built a European contract and got its
\* volatility returns the engine's value or 0, never None; the only error a
\* live vega() or rho() ends with after building its contract is the one the
\* solver's retry raised, so an engine that raises on the sensitivity yields 0;
\* None is returned only with an American contract.
C11_EuropeanSensitivityNumericOrZero ==
    (last.op \in {"vega", "rho"} /\ Live(last)) =>
        /\ (option = "EuropeanExercise" /\ Returned(last)) =>
              last.result \in {Result(last.op, 0), Result("value", 0)}
        /\ last.result.kind = "RuntimeError" =>
              (Len(last.solves) = 2 /\ ~last.solves[2].outcome.ok)
        /\ last.result.kind = "None" => option = "AmericanExercise"

\* a live vega() on a European contract returned 0 because the engine raised
C11_Witness ==
    /\ last.op = "vega" /\ Live(last) /\ option = "EuropeanExercise"
    /\ last.result = Result("value", 0)

\* C12: gamma(), theta(), vega() and rho() called for a date at or after
\* maturity return exactly 0, whatever the exercise style, base_date and
\* overrides, and do not reach the solver.
C12_ExpiredSensitivitiesAreZero ==
    (last.op \in {"gamma", "theta", "vega", "rho"} /\ last.date >= option_maturity) =>
        /\ last.result = Result("value", 0)
        /\ last.solves = << >>

\* vega() on an expired date with an American override and a volatility
\* override returned 0
C12_Witness ==
    /\ last.op = "vega" /\ last.date >= option_maturity
    /\ last.exercise_ovrd = Some("american") /\ last.volatility # None
    /\ last.date > last.base_date
    /\ last.result = Result("value", 0)

\* the valuation call c builds a contract: it is not answered by an expiry guard
Builds(c) == c.op \in ValuationOps /\ (c.op \in {"price_underlying", "delta_underlying"} \/ Live(c))

\* C15: a valuation call that builds its contract from an exercise style that
\* is neither AMERICAN nor EUROPEAN in any letter case ends with ValueError,
\* with the pricing process, the volatility cache and the stored contract as
\* they were and without a solver invocation; a style that is AMERICAN or
\* EUROPEAN in some letter case never ends with ValueError.
C15_UnsupportedStyleRaisesAtBuild ==
    [][Builds(last') =>
          LET style == IF last'.exercise_ovrd # None THEN last'.exercise_ovrd[1]
                       ELSE exercise_type
          IN  /\ upper(style) \notin {"AMERICAN", "EUROPEAN"} =>
                    /\ last'.result.kind = "ValueError"
                    /\ ql_process' = ql_process
                    /\ implied_volatility' = implied_volatility
                    /\ option' = option
                    /\ last'.solves = << >>
              /\ upper(style) \in {"AMERICAN", "EUROPEAN"} =>
                    last'.result.kind # "ValueError"]_vars

\* a call with an unsupported override and a volatility override ended with
\* ValueError; the cache holds entries and none for the call's key, and the
\* process still holds the volatility of an earlier call
C15_Witness ==
    /\ Builds(last) /\ last.exercise_ovrd = Some("bermudan")
    /\ last.volatility # None /\ last.result.kind = "ValueError"
    /\ implied_volatility # << >> /\ Key(last) \notin DOMAIN implied_volatility
    /\ ql_process.vol = 31

\* C18: no call removes a key of the volatility cache, and every value a call
\* stores (under a new key or over an old value) is the volatility override
\* the call was given or a volatility the solver returned in that call; a
\* valuation call that was not given the placeholder as its override never
\* stores the placeholder.
C18_CacheKeepsOverrideOrSolved ==
    [][/\ DOMAIN implied_volatility \subseteq DOMAIN implied_volatility'
       /\ \A d \in DOMAIN implied_volatility' :
             (d \notin DOMAIN implied_volatility
                \/ implied_volatility'[d] # implied_volatility[d]) =>
                /\ \/ /\ last'.volatility # None
                      /\ implied_volatility'[d] = last'.volatility[1]
                   \/ \E i \in 1..Len(last'.solves) :
                         /\ last'.solves[i].outcome.ok
                         /\ implied_volatility'[d] = last'.solves[i].outcome.vol
                /\ (last'.op \in ValuationOps /\ last'.volatility # Some(vol_value)) =>
                      implied_volatility'[d] # vol_value]_vars

\* after a valuation call the cache holds a solved entry and an override
\* entry under two keys
C18_Witness ==
    /\ last.op \in ValuationOps /\ Returned(last)
    /\ \E d1, d2 \in DOMAIN implied_volatility :
          /\ d1 # d2
          /\ implied_volatility[d1] = 31
          /\ implied_volatility[d2] = 21

\* C13: delta() called for a date at or after maturity returns 1 when the
\* payoff at maturity (spot - strike for a CALL, strike - spot for a PUT) is
\* positive and 0 otherwise, and nothing else.
C13_ExpiredDeltaIsOneOrZero ==
    (last.op = "delta" /\ last.date >= option_maturity) =>
        LET S == spot_price(option_maturity)
            payoff == IF opt_type = "CALL" THEN S - strike ELSE strike - S
        IN  /\ last.result = Result("value", IF payoff > 0 THEN 1 ELSE 0)
            /\ last.solves = << >>

\* delta() of an expired PUT struck above the spot returned 1
C13_Witness ==
    /\ last.op = "delta" /\ last.date > option_maturity /\ opt_type = "PUT"
    /\ strike > spot_price(option_maturity)
    /\ last.result = Result("value", 1)

\* C14: intrinsic() called for a date up to maturity, with S the spot at that
\* date and K the strike, returns S - K for a CALL when S > K and 0 when
\* S <= K, K - S for a PUT when S < K and 0 when S >= K; it is never negative.
C14_IntrinsicIsFlooredPayoff ==
    (last.op = "intrinsic" /\ last.date <= option_maturity) =>
        LET S == spot_price(last.date)
            K == strike
        IN  /\ last.result.kind = "value"
            /\ opt_type = "CALL" => last.result.val = (IF S > K THEN S - K ELSE 0)
            /\ opt_type = "PUT" => last.result.val = (IF S < K THEN K - S ELSE 0)
            /\ last.result.val >= 0

\* intrinsic() of a CALL struck above the spot returned 0 at maturity
C14_Witness ==
    /\ last.op = "intrinsic" /\ last.date = option_maturity /\ opt_type = "CALL"
    /\ strike > spot_price(last.date) /\ last.result = Result("value", 0)

\* C16: with the calls on the shared process serialised, once the valuation
\* call that started last has returned and no call is in progress, the
\* process holds the volatility stored in that instrument's cache under the
\* call's effective key and the spot of the call's date, and a read of the
\* process by either instrument observes exactly that; the next valuation
\* call, by whichever instrument, takes its place.
C16_LastWriterWins ==
    (/\ serialised
     /\ latest \in Instruments
     /\ \A j \in Instruments : calls[j].pc \notin InProgress
     /\ calls[latest].pc = "returned") =>
        LET c == calls[latest]
        IN  /\ c.key \in DOMAIN caches[latest]
            /\ ql_process.vol = caches[latest][c.key]
            /\ ql_process.spot = spot_price(c.date)
            /\ seen # None =>
                  /\ seen[1].vol = caches[latest][c.key]
                  /\ seen[1].spot = spot_price(c.date)

\* B read the process after A's call returned and observed A's volatility,
\* which is not the one B's own cache holds under that key
C16_Witness ==
    /\ serialised /\ latest = "A" /\ calls["A"].pc = "returned"
    /\ seen # None /\ seen[1].by = "B"
    /\ seen[1].vol = caches["A"][calls["A"].key]
    /\ calls["A"].key \in DOMAIN caches["B"]
    /\ caches["B"][calls["A"].key] # seen[1].vol

\* C17: when the callers serialise their calls, every call that returned
\* evaluated its price on the volatility its own cache holds under its key
\* and on the spot of its own date; the witness is the unserialised run in
\* which a call evaluated on another call's volatility.
C17_SerialisedCallsPriceOnOwnVolatility ==
    serialised =>
        \A i \in Instruments :
            calls[i].pc = "returned" =>
                /\ calls[i].key \in DOMAIN caches[i]
                /\ calls[i].evaluated.vol = caches[i][calls[i].key]
                /\ calls[i].evaluated.spot = spot_price(calls[i].date)

\* without serialisation, a call returned after evaluating on a volatility
\* that is not the one it resolved
C17_Witness ==
    /\ ~serialised
    /\ \E i \in Instruments :
          /\ calls[i].pc = "returned"
          /\ calls[i].evaluated.vol # caches[i][calls[i].key]
          /\ calls[i].evaluated.vol \in {21, 31}

\* C19: value() of a Currency or Cash instrument called with a currency code
\* whose length is not three returns NaN and makes no get_values call on the
\* quote series.
C19_BadLengthCodeIsNaN ==
    (fx_last.op = "value" /\ fx_last.currency # None /\ Len(fx_last.currency[1]) # 3) =>
        /\ fx_last.outcome.result = NaN
        /\ fx_last.outcome.reads = 0

\* value() of an instrument quoted in its own currency was called with a
\* two-letter code and returned NaN
C19_Witness ==
    /\ fx_last.op = "value" /\ fx_last.currency = Some(<<"U", "S">>)
    /\ fx.currency = fx.base_currency
    /\ fx_last.outcome.result = NaN /\ fx_last.outcome.reads = 0

\* C20: value() called with a three-letter code returns the quote when the
\* code is the instrument's currency, the reciprocal of the quote when it is
\* the base currency, and NaN when it is neither.
C20_ValueByCurrencyCode ==
    (fx_last.op = "value" /\ fx_last.currency # None /\ Len(fx_last.currency[1]) = 3) =>
        LET c == to_upper_list(fx_last.currency[1])
            quote == get_values(fx_last.date)
        IN  fx_last.outcome.result =
                IF c = fx.currency THEN quote
                ELSE IF c = fx.base_currency THEN Reciprocal(quote)
                ELSE NaN

\* C22: a live valuation call without a volatility override that builds its
\* contract and finds, under its effective key, an entry that an earlier
\* override stored does not invoke the solver, leaves the entry as it was and
\* returns with the process holding the override value.
C22_OverridePersists ==
    (/\ Live(last) /\ last.volatility = None /\ Built(last)
     /\ last.before # None /\ last.before[1] \in VolOverrides) =>
        /\ last.solves = << >>
        /\ Returned(last)
        /\ implied_volatility[Key(last)] = last.before[1]
        /\ ql_process.vol = last.before[1]

\* a call for a future date, without override, used the override an earlier
\* call stored under base_date
C22_Witness ==
    /\ Live(last) /\ last.volatility = None /\ last.date > last.base_date
    /\ last.before = Some(21) /\ last.solves = << >> /\ Returned(last)
    /\ ql_process.vol = 21

\* C25: a valuation call that builds its contract with an exercise_ovrd leaves
\* the upper-cased override as the instrument's exercise type, also when the
\* override is unsupported and the call ends with ValueError; a call without
\* exercise_ovrd on an instrument whose stored type is unsupported ends with
\* ValueError; a call with a supported exercise_ovrd does not.
C25_UnsupportedOverrideSticks ==
    Builds(last) =>
        /\ last.exercise_ovrd # None => exercise_type = upper(last.exercise_ovrd[1])
        /\ (last.exercise_ovrd = None /\ upper(exercise_type) \notin {"AMERICAN", "EUROPEAN"})
              => last.result.kind = "ValueError"
        /\ (last.exercise_ovrd # None
              /\ upper(last.exercise_ovrd[1]) \in {"AMERICAN", "EUROPEAN"})
              => last.result.kind # "ValueError"

\* a call without exercise_ovrd on an instrument built as European ended with
\* ValueError because an earlier call left BERMUDAN as its exercise type
C25_Witness ==
    /\ Builds(last) /\ last.exercise_ovrd = None /\ last.result.kind = "ValueError"
    /\ exercise_type = "BERMUDAN" /\ ts_attributes.EXERCISE_TYPE = "European"

\* C27: optionality() returns 0 for a date at or after maturity; for a live
\* date on which it returns, the result is the engine's price minus the
\* intrinsic value at the earlier of date and base_date, which is the key
\* the volatility of the call is cached under.
C27_OptionalityAtEffectiveDate ==
    last.op = "optionality" =>
        /\ last.date >= option_maturity => last.result = Result("value", 0)
        /\ (Live(last) /\ Returned(last)) =>
              /\ last.result = Result("NPV-intrinsic", intrinsic(Key(last)))
              /\ Key(last) \in DOMAIN implied_volatility
              /\ ql_process.vol = implied_volatility[Key(last)]

\* optionality() for a future date subtracted the intrinsic value at
\* base_date, which differs from the one at the requested date
C27_Witness ==
    /\ last.op = "optionality" /\ Live(last) /\ Returned(last)
    /\ last.date > last.base_date
    /\ intrinsic(last.date) # intrinsic(last.base_date)
    /\ last.result.val = intrinsic(last.base_date)

\* C26: price, delta, gamma, theta, vega, rho, optionality and
\* underlying_price called for a date at or after maturity return a value
\* without a solver invocation and leave the stored contract, the volatility
\* cache, the stored exercise type and the pricing process exactly as they
\* were, whatever exercise_ovrd and volatility override they were given.
C26_ExpiredCallsLeaveStateAlone ==
    [][(/\ last'.op \in {"price", "delta", "gamma", "theta", "vega", "rho",
                          "optionality", "underlying_price"}
        /\ last'.date >= option_maturity) =>
          /\ last'.result.kind = "value"
          /\ last'.solves = << >>
          /\ option' = option
          /\ implied_volatility' = implied_volatility
          /\ exercise_type' = exercise_type
          /\ ql_process' = ql_process]_vars

\* underlying_price() on an expired date was given an unsupported
\* exercise_ovrd and a volatility override; the instrument still holds its
\* European style and a cache without the call's key
C26_Witness ==
    /\ last.op = "underlying_price" /\ last.date >= option_maturity
    /\ last.exercise_ovrd = Some("bermudan") /\ last.volatility # None
    /\ last.result = Result("value", 0)
    /\ exercise_type = "European"
    /\ implied_volatility # << >> /\ Key(last) \notin DOMAIN implied_volatility

\* C24: an implied_vol() call that finds no contract and builds one goes
\* through option_engine with 0.2 as volatility override and leaves 0.2 in the
\* cache under its date; an implied_vol() call that finds a contract leaves
\* the cache, the contract and the exercise style as they were; and a live
\* price() call without override whose effective date holds 0.2 invokes the
\* solver zero times, leaves the cache as it was and prices with 0.2.
C24_ImpliedVolSeedsCache ==
    [][/\ ((last'.op = "implied_vol" /\ option = NoOption /\ option' # NoOption)
            => (/\ last'.volatility = Some(vol_value)
                /\ implied_volatility' = DictSet(implied_volatility, last'.date, vol_value)
                /\ Len(last'.solves) = 1
                /\ last'.solves[1].accuracy = "default"))
        /\ ((last'.op = "implied_vol" /\ option # NoOption)
            => (/\ implied_volatility' = implied_volatility
                /\ option' = option
                /\ exercise_type' = exercise_type
                /\ last'.volatility = None))
        /\ ((/\ PriceNoOverride(last')
             /\ Built(last')
             /\ DictGet(implied_volatility, Key(last')) = Some(vol_value))
            => (/\ last'.solves = << >>
                /\ implied_volatility' = implied_volatility
                /\ ql_process'.vol = vol_value
                /\ last'.result = Result("NPV", 0)))]_vars

\* a live price() call without override has returned a price after finding
\* under its date the 0.2 that an earlier implied_vol() call stored
C24_Witness ==
    /\ PriceNoOverride(last)
    /\ last.before = Some(vol_value)
    /\ last.solves = << >>
    /\ last.result.kind = "NPV"
    /\ ql_process.vol = vol_value

\* C23: a valuation call that solves does so on the process as update_process
\* left it: on the underlying_price override when one was passed, on the
\* market spot of the date otherwise; price_underlying and delta_underlying
\* pass no override to option_engine, so they solve on the market spot, and
\* when they return the process holds the spot_price they were given; and a
\* live price() call with neither override that finds an entry under its
\* effective date does not solve, leaves the entry as it was, prices with it
\* and leaves the process on the market spot of its date.
C23_SolveSeesSpotOverride ==
    /\ (last.op \in ValuationOps /\ last.solves # << >>)
        => last.solved_on = IF last.underlying_price # None
                            THEN last.underlying_price[1]
                            ELSE spot_price(last.date)
    /\ last.op \in {"price_underlying", "delta_underlying"}
        => /\ last.underlying_price = None
           /\ Returned(last) => /\ ql_process.spot \in SpotPrices
                                /\ ql_process.spot # spot_price(last.date)
                                /\ ql_process.vol = implied_volatility[Key(last)]
    /\ (/\ PriceNoOverride(last)
        /\ last.underlying_price = None
        /\ last.before # None)
        => /\ last.solves = << >>
           /\ implied_volatility[Key(last)] = last.before[1]
           /\ ql_process = [vol |-> last.before[1], spot |-> spot_price(last.date)]

\* a price() call with an underlying_price override has solved on the
\* overridden spot, stored the solved volatility and returned
C23_Witness ==
    /\ last.op = "price"
    /\ last.underlying_price = Some(95)
    /\ last.before = None
    /\ Len(last.solves) >= 1
    /\ last.solved_on = 95
    /\ last.result.kind = "NPV"
    /\ implied_volatility[Key(last)] \in ImpliedVols
    /\ ql_process.spot = 95

\* C21: after a rate_helper(date, spread) call that returned a helper, the
\* helper adds the spread of that call to the overnight rate and quotes the
\* rate read for that date.
C21_HelperAppliesCallSpread ==
    (ois_last.op = "rate_helper" /\ ois_last.returned # None) =>
        /\ HelperSpread(ois_helper) = ois_last.spread
        /\ HelperRate(ois_helper, final_rate) = rate_get_values(ois_last.date)[1]

\* C28: a rate_helper call for a date at which the instrument is expired,
\* the rate is NaN or the tenor cannot be computed returns None, constructs
\* no helper and leaves the helper, the rate quote and the spread quote as
\* they were; a call for any other date returns a helper.
C28_GuardedCallChangesNothing ==
    [][ois_last'.op = "rate_helper" =>
        IF \/ is_expired(ois_last'.date)
           \/ rate_get_values(ois_last'.date) = None
           \/ tenor_raises(ois_last'.date)
        THEN /\ ois_last'.returned = None
             /\ UNCHANGED <<ois_helper, final_rate, final_spread, helpers_built>>
        ELSE ois_last'.returned # None]_vars

\* a call for the date without a rate came after a call that returned a
\* helper, and the quotes still hold what that call stored
C28_Witness ==
    /\ ois_last.op = "rate_helper"
    /\ ois_last.guard = "nan"
    /\ ois_last.returned = None
    /\ ois_last.found
    /\ ois_last.spread = 5
    /\ final_spread = 25
    /\ final_rate = 330

\* C29: at most one helper object is ever constructed, and none before a
\* call passes every guard; every call that returns a helper returns that
\* one object, and leaves the rate quote on the rate read for its date and
\* the spread quote on its spread.
C29_OneHelperQuotesFollowCalls ==
    /\ helpers_built <= 1
    /\ (ois_helper = None) <=> (helpers_built = 0)
    /\ helpers_built = 0 => (final_rate = 0 /\ final_spread = 0)
    /\ ois_helper # None => ois_helper.id = 1
    /\ (ois_last.op = "rate_helper" /\ ois_last.guard = "")
        => /\ ois_last.returned = Some(1)
           /\ ois_helper # None
           /\ final_rate = rate_get_values(ois_last.date)[1]
           /\ final_spread = ois_last.spread

\* a call that found the helper of an earlier call returned it and moved
\* both quotes
C29_Witness ==
    /\ ois_last.op = "rate_helper"
    /\ ois_last.found
    /\ ois_last.returned = Some(1)
    /\ ois_last.date = 3
    /\ ois_last.spread = 10
    /\ final_rate = 330
    /\ final_spread = 10
    /\ helpers_built = 1

====
